---- MODULE Spec2Model ----
(***************************************************************************)
(* Paper-trading engine (PaperTrader) of the BTC 15m assistant, with the   *)
(* server handlers and the data loop that drive it.                        *)
(*                                                                         *)
(* Units.  Money is counted in cents, venue prices in cents per share      *)
(* (a price strictly inside (0,1) is 1..99), signal.edge in percent points *)
(* as the snapshot carries it, time in milliseconds.  Arithmetic is exact  *)
(* (IEEE rounding of the JavaScript numbers is not modelled).              *)
(*                                                                         *)
(* A JavaScript value that may be null is None (the empty tuple) or        *)
(* Some(v) when it is a number, and the string NullStr when it is a        *)
(* string.                                                                 *)
(***************************************************************************)
EXTENDS Integers, Sequences, FiniteSets, TLC

None == <<>>
Some(v) == <<v>>
Val(o) == o[1]
NullStr == "null"

Min(a, b) == IF a <= b THEN a ELSE b
Max(a, b) == IF a >= b THEN a ELSE b
Abs(a) == IF a < 0 THEN 0 - a ELSE a

(***************************************************************************)
(* Program constants.                                                      *)
(***************************************************************************)
minEdge == 10                 \* options.minEdge || 0.10, in percent
defaultMaxPositionPct == 5    \* options.maxPositionPct || 0.05, in percent
cooldownMs == 30000           \* options.cooldownMs || 30000
autoResetThreshold == 1000    \* $10, in cents
defaultStartingBalance == 100000   \* new PaperTrader({ startingBalance: 1000 })
apiDefaultBalance == 50000    \* paperTrader.reset(startingBalance || 500)
OneDollar == 100              \* cents: the "$1 per share" payout, "positionSize < 1"
autoMaxPositionSize == 10     \* AutoTrader: options.maxPositionSize || 10, in shares
autoMinEdge == 10             \* AutoTrader: options.minEdge || 0.10, in percent
autoMaxDailyLoss == 5000      \* AutoTrader: options.maxDailyLoss || 50, in cents
autoCooldownMs == 60000       \* AutoTrader: options.cooldownMs || 60000

(***************************************************************************)
(* Bounds of the model.                                                    *)
(***************************************************************************)
MaxCycles == 3                \* iterations of the data loop
MaxEvents == 2                \* requests served on /api/paper/* and process restarts
MaxGateCycles == 1            \* loop iterations before a direct call of evaluateAndTrade
MaxLatchCycles == 4           \* cycles of updateData
MaxTraderCycles == 2          \* snapshots handed to both traders
MaxLoopCycles == 2            \* iterations of the loop taken await by await
MaxCalls == 3                 \* calls of the commands of the paper engine, one per step
MaxLiveCycles == 5            \* snapshots handed to the AutoTrader alone
MaxBars == 5                  \* 1m candles of a fetch (240 in updateData)
CrossLookback == 4            \* the lookback of countVwapCrosses (20 in updateData)

\* The loop sleeps CONFIG.pollIntervalMs between iterations; one iteration
\* here is half the cooldown, so that a call lands inside and outside it.
PollMs == cooldownMs \div 2

initStats ==
  [totalTrades |-> 0, wins |-> 0, losses |-> 0, totalWon |-> 0, totalLost |-> 0,
   largestWin |-> 0, largestLoss |-> 0, currentStreak |-> 0, bestStreak |-> 0,
   worstStreak |-> 0]

initLifetimeStats ==
  [totalSessions |-> 0, totalTrades |-> 0, totalWins |-> 0, totalLosses |-> 0,
   totalWon |-> 0, totalLost |-> 0, sessionsWon |-> 0, sessionsLost |-> 0]

\* What one handler did, kept for the properties: its return value and the
\* values the code held at its settlement, gate, buy and reset statements.
\* built: the handler was the constructor; thrown: it ended in an exception;
\* deferred: settlePositions returned at its null check with positions open;
\* lastEntry: the time of the engine's latest buy, kept from handler to handler.
NoObs ==
  [traded |-> FALSE, reason |-> "", settled |-> <<>>,
   gate |-> <<>>, buy |-> <<>>, resets |-> <<>>, data |-> <<>>,
   built |-> FALSE, thrown |-> FALSE, deferred |-> FALSE, lastEntry |-> <<>>]

(***************************************************************************)
(* The PaperTrader object.  An engine value e is a record of the object's  *)
(* fields; every method is an operator from engine values to engine        *)
(* values, so that a handler is the composition of the calls it makes.     *)
(*   trades     the trade list, a sequence of trade records                *)
(*   positions  the Map id -> trade in insertion order: a sequence of      *)
(*              [ref, t], t the trade object and ref its index in trades   *)
(*              when it is the same object, 0 when it is a copy parsed     *)
(*              from the store                                             *)
(*   store      the content of DATA_FILE, None while the file is missing   *)
(* Trade records keep the fields the engine reads or the properties name   *)
(* (id, marketSlug, side, shares, entryPrice, cost, status, pnl, outcome,  *)
(* settledAt); pendingSettlement keeps the slug and the prices of the      *)
(* snapshot, the only part settlePositions reads.                          *)
(***************************************************************************)

Truthy(str) == str # NullStr /\ str # ""

\* r.f is defined (the key is present in the parsed JSON object)
Has(r, f) == f \in DOMAIN r

\* r.f || d for an object or array field
FieldOr(r, f, d) == IF Has(r, f) THEN r[f] ELSE d

Persisted(e) ==
  [startingBalance |-> e.startingBalance, balance |-> e.balance,
   trades |-> e.trades,
   positions |-> [i \in 1..Len(e.positions) |-> e.positions[i].t],
   enabled |-> e.enabled, stats |-> e.stats,
   sessionHistory |-> e.sessionHistory, lifetimeStats |-> e.lifetimeStats]

\* the save that writes nothing
saveNothing(e) == e

save(e) == [e EXCEPT !.store = Some(Persisted(e))]

Begin(e) == [e EXCEPT !.obs = [NoObs EXCEPT !.lastEntry = e.obs.lastEntry]]

Return(e, traded, reason) == [e EXCEPT !.obs.traded = traded, !.obs.reason = reason]

enable(e) == save([e EXCEPT !.enabled = TRUE])

disable(e) == save([e EXCEPT !.enabled = FALSE])

SessionRecord(e) ==
  [id |-> Len(e.sessionHistory) + 1,
   startingBalance |-> e.startingBalance,
   endingBalance |-> e.balance,
   pnl |-> e.balance - e.startingBalance,
   trades |-> e.stats.totalTrades,
   wins |-> e.stats.wins,
   losses |-> e.stats.losses,
   wiped |-> e.balance < autoResetThreshold]

RecordsSession(e, recordSession) == recordSession /\ e.stats.totalTrades > 0

\* the fold that takes the session's counts away from the lifetime counts
FoldLifetimeSubtract(e) ==
  LET l == e.lifetimeStats
  IN [totalSessions |-> l.totalSessions - 1,
      totalTrades |-> l.totalTrades - e.stats.totalTrades,
      totalWins |-> l.totalWins - e.stats.wins,
      totalLosses |-> l.totalLosses - e.stats.losses,
      totalWon |-> l.totalWon - e.stats.totalWon,
      totalLost |-> l.totalLost - e.stats.totalLost,
      sessionsWon |-> l.sessionsWon,
      sessionsLost |-> l.sessionsLost]

\* the fold that counts a session as won or not at all
FoldLifetimeWonOnly(e) ==
  LET sessionPnl == e.balance - e.startingBalance
      l == e.lifetimeStats
  IN [totalSessions |-> l.totalSessions + 1,
      totalTrades |-> l.totalTrades + e.stats.totalTrades,
      totalWins |-> l.totalWins + e.stats.wins,
      totalLosses |-> l.totalLosses + e.stats.losses,
      totalWon |-> l.totalWon + e.stats.totalWon,
      totalLost |-> l.totalLost + e.stats.totalLost,
      sessionsWon |-> IF sessionPnl > 0 THEN l.sessionsWon + 1 ELSE l.sessionsWon,
      sessionsLost |-> l.sessionsLost]

FoldLifetime(e) ==
  LET sessionPnl == e.balance - e.startingBalance
      l == e.lifetimeStats
  IN [totalSessions |-> l.totalSessions + 1,
      totalTrades |-> l.totalTrades + e.stats.totalTrades,
      totalWins |-> l.totalWins + e.stats.wins,
      totalLosses |-> l.totalLosses + e.stats.losses,
      totalWon |-> l.totalWon + e.stats.totalWon,
      totalLost |-> l.totalLost + e.stats.totalLost,
      sessionsWon |-> IF sessionPnl > 0 THEN l.sessionsWon + 1 ELSE l.sessionsWon,
      sessionsLost |-> IF sessionPnl > 0 THEN l.sessionsLost ELSE l.sessionsLost + 1]

reset(e, startingBalance, recordSession) ==
  LET rec == RecordsSession(e, recordSession)
      hist == IF rec THEN Append(e.sessionHistory, SessionRecord(e)) ELSE e.sessionHistory
      life == IF rec THEN FoldLifetime(e) ELSE e.lifetimeStats
      ev == [entered |-> Len(e.trades), settledTrades |-> e.stats.totalTrades,
             endingBalance |-> e.balance,
             histBefore |-> Len(e.sessionHistory), histAfter |-> Len(hist),
             sessionsBefore |-> e.lifetimeStats.totalSessions,
             sessionsAfter |-> life.totalSessions]
  IN save([e EXCEPT !.sessionHistory = hist,
                    !.lifetimeStats = life,
                    !.startingBalance = startingBalance,
                    !.balance = startingBalance,
                    !.trades = <<>>,
                    !.positions = <<>>,
                    !.stats = initStats,
                    !.lastTradeTime = None,
                    !.obs.resets = Append(e.obs.resets, ev)])

\* the auto-reset that does not record the session it closes
checkAutoResetUnrecorded(e) ==
  IF e.balance < autoResetThreshold /\ Len(e.positions) = 0
  THEN [e |-> reset(e, e.startingBalance, FALSE), did |-> TRUE]
  ELSE [e |-> e, did |-> FALSE]

checkAutoReset(e) ==
  IF e.balance < autoResetThreshold /\ Len(e.positions) = 0
  THEN [e |-> reset(e, e.startingBalance, TRUE), did |-> TRUE]
  ELSE [e |-> e, did |-> FALSE]

CooldownActive(e, t) ==
  e.lastTradeTime # None /\ t - Val(e.lastTradeTime) < cooldownMs

canTrade(e, t) ==
  LET g == [e EXCEPT !.obs.gate =
              <<[enabled |-> e.enabled, balance |-> e.balance,
                 open |-> Len(e.positions), stats |-> e.stats,
                 lifetimeStats |-> e.lifetimeStats,
                 lastTradeTime |-> e.lastTradeTime, at |-> t]>>]
      a == checkAutoReset(g)
  IN IF ~g.enabled
     THEN [e |-> g, allowed |-> FALSE, reason |-> "Paper trading disabled"]
     ELSE IF a.did
     THEN [e |-> a.e, allowed |-> FALSE, reason |-> "Session reset - waiting for next signal"]
     ELSE IF g.balance < autoResetThreshold
     THEN [e |-> g, allowed |-> FALSE,
           reason |-> "Balance too low - waiting for positions to settle"]
     ELSE IF CooldownActive(g, t)
     THEN [e |-> g, allowed |-> FALSE, reason |-> "Cooldown"]
     ELSE [e |-> g, allowed |-> TRUE, reason |-> ""]

\* a winner is paid back its cost instead of 1 dollar per share
PayoutCostBack(trade, outcome) == IF trade.side = outcome THEN trade.cost ELSE 0

Payout(trade, outcome) == IF trade.side = outcome THEN trade.shares * OneDollar ELSE 0

\* UP also at a price equal to the price to beat
OutcomeNotStrict(currentPrice, priceToBeat) ==
  IF currentPrice >= priceToBeat THEN "UP" ELSE "DOWN"

Outcome(currentPrice, priceToBeat) == IF currentPrice > priceToBeat THEN "UP" ELSE "DOWN"

\* The stats block of settlePositions: counters, largest win/loss and streaks.
SettledStats(st, pnl) ==
  IF pnl > 0
  THEN LET cur == Max(0, st.currentStreak) + 1
       IN [st EXCEPT !.totalTrades = @ + 1, !.wins = @ + 1, !.totalWon = @ + pnl,
                     !.largestWin = Max(@, pnl), !.currentStreak = cur,
                     !.bestStreak = Max(@, cur)]
  ELSE LET cur == Min(0, st.currentStreak) - 1
       IN [st EXCEPT !.totalTrades = @ + 1, !.losses = @ + 1, !.totalLost = @ + Abs(pnl),
                     !.largestLoss = Max(@, Abs(pnl)), !.currentStreak = cur,
                     !.worstStreak = Min(@, cur)]

\* The stats block of forceSettle: counters only.
ForceSettledStats(st, pnl) ==
  IF pnl > 0
  THEN [st EXCEPT !.totalTrades = @ + 1, !.wins = @ + 1, !.totalWon = @ + pnl]
  ELSE [st EXCEPT !.totalTrades = @ + 1, !.losses = @ + 1, !.totalLost = @ + Abs(pnl)]

\* the settlement that pays nothing into the balance
CreditNothing(balance, payout) == balance

Credit(balance, payout) == balance + payout

\* One pass of the loop body of settlePositions / forceSettle over the Map
\* entry p: the trade object is mutated (and with it the trade-list record
\* when it is the same object), the balance credited, the entry deleted.
SettleEntry(e, p, outcome, status, stats, via, t) ==
  IF p.t.status # "OPEN" THEN e
  ELSE
    LET payout == Payout(p.t, outcome)
        pnl == payout - p.t.cost
        done == [p.t EXCEPT !.status = status, !.pnl = Some(pnl),
                            !.settledAt = Some(t), !.outcome = outcome]
        ev == [id |-> p.t.id, marketSlug |-> p.t.marketSlug, side |-> p.t.side,
               shares |-> p.t.shares, cost |-> p.t.cost, status |-> status,
               outcome |-> outcome, payout |-> payout, pnl |-> Val(done.pnl),
               balanceBefore |-> e.balance,
               balanceAfter |-> Credit(e.balance, payout), via |-> via]
    IN [e EXCEPT !.trades = IF p.ref > 0 THEN [@ EXCEPT ![p.ref] = done] ELSE @,
                 !.balance = Credit(@, payout),
                 !.stats = stats,
                 !.positions = SelectSeq(@, LAMBDA q : q.t.id # p.t.id),
                 !.obs.settled = Append(@, ev)]

RECURSIVE SettleLoop(_, _, _, _)
SettleLoop(e, entries, finalData, t) ==
  IF entries = <<>> THEN e
  ELSE LET p == Head(entries)
           outcome == Outcome(Val(finalData.chainlink), Val(finalData.priceToBeat))
           pnl == Payout(p.t, outcome) - p.t.cost
       IN SettleLoop(SettleEntry(e, p, outcome, "SETTLED", SettledStats(e.stats, pnl),
                                 finalData, t),
                     Tail(entries), finalData, t)

\* the settlement that drops the positions it cannot settle
settlePositionsDropping(e, finalData, t) ==
  IF finalData = None \/ Len(e.positions) = 0 THEN e
  ELSE IF Val(finalData).chainlink = None \/ Val(finalData).priceToBeat = None
  THEN save([e EXCEPT !.positions = <<>>, !.obs.deferred = TRUE])
  ELSE save(SettleLoop(e, e.positions, Val(finalData), t))

\* finalData is this.pendingSettlement: None, or Some of a snapshot's prices.
settlePositions(e, finalData, t) ==
  IF finalData = None \/ Len(e.positions) = 0 THEN e
  ELSE IF Val(finalData).chainlink = None \/ Val(finalData).priceToBeat = None
  THEN [e EXCEPT !.obs.deferred = TRUE]
  ELSE save(SettleLoop(e, e.positions, Val(finalData), t))

RECURSIVE ForceLoop(_, _, _, _)
ForceLoop(e, entries, outcome, t) ==
  IF entries = <<>> THEN e
  ELSE LET p == Head(entries)
           pnl == Payout(p.t, outcome) - p.t.cost
       IN ForceLoop(SettleEntry(e, p, outcome, "FORCE_SETTLED",
                                ForceSettledStats(e.stats, pnl),
                                [slug |-> NullStr, chainlink |-> None, priceToBeat |-> None],
                                t),
                    Tail(entries), outcome, t)

forceSettle(e, outcome, t) == save(ForceLoop(e, e.positions, outcome, t))

getStatus(e) == checkAutoReset(e).e

RECURSIVE OpenCost(_)
OpenCost(entries) ==
  IF entries = <<>> THEN 0
  ELSE (IF Head(entries).t.status = "OPEN" THEN Head(entries).t.cost ELSE 0)
       + OpenCost(Tail(entries))

\* full Kelly: the edge is not halved
KellyFractionFull(edge, maxPositionPct) == Min(2 * edge, 2 * maxPositionPct)

\* Math.min(edgeValue * 0.5, this.maxPositionPct), in units of 1/200.
KellyFraction(edge, maxPositionPct) == Min(edge, 2 * maxPositionPct)

\* Math.min(balance * kellyFraction, balance * maxPositionPct), in 1/200 cent.
PositionSize(balance, edge, maxPositionPct) ==
  Min(balance * KellyFraction(edge, maxPositionPct), balance * 2 * maxPositionPct)

\* Math.floor(positionSize / price)
Shares(positionSize, price) == positionSize \div (200 * price)

Cost(shares, price) == shares * price

\* the buy that forgets to debit the balance
DebitNothing(balance, cost) == balance

Debit(balance, cost) == balance - cost

SidePrice(data) == IF data.side = "UP" THEN data.upPrice ELSE data.downPrice

\* signal.edge / 100 with a null edge is 0
EdgeOf(data) == IF data.edge = None THEN 0 ELSE Val(data.edge)

\* this.positions.set(id, trade): a present key keeps its place in the Map
MapSet(entries, p) ==
  IF \E i \in 1..Len(entries) : entries[i].t.id = p.t.id
  THEN [i \in 1..Len(entries) |-> IF entries[i].t.id = p.t.id THEN p ELSE entries[i]]
  ELSE Append(entries, p)

\* The buy: lines "Execute paper trade" to the save.
Buy(e, data, price, shares, cost, t) ==
  LET trade == [id |-> t, marketSlug |-> data.slug, side |-> data.side,
                shares |-> shares, entryPrice |-> price, cost |-> cost,
                status |-> "OPEN", pnl |-> None, outcome |-> NullStr,
                settledAt |-> None]
      seen == [balanceBefore |-> e.balance, openCostBefore |-> OpenCost(e.positions),
               openBefore |-> Len(e.positions), edge |-> EdgeOf(data), trade |-> trade,
               prevEntry |-> e.obs.lastEntry]
  IN save([e EXCEPT !.balance = Debit(@, cost),
                    !.lastTradeTime = Some(t),
                    !.trades = Append(@, trade),
                    !.positions = MapSet(@, [ref |-> Len(e.trades) + 1, t |-> trade]),
                    !.obs.buy = <<seen>>,
                    !.obs.lastEntry = Some(t)])

\* the gates with the LATE phase checked before the edge and the strength
SignalGateLateFirst(e, data) ==
  LET price == SidePrice(data)
      size == PositionSize(e.balance, EdgeOf(data), e.maxPositionPct)
      shares == Shares(size, Val(price))
  IN IF data.action = "HOLD" \/ data.side = NullStr THEN "No actionable signal"
     ELSE IF data.phase = "LATE" THEN "Too late in window"
     ELSE IF EdgeOf(data) < minEdge THEN "Edge below min"
     ELSE IF data.strength # "STRONG" /\ data.strength # "GOOD" THEN "Signal not strong enough"
     ELSE IF price = None \/ Val(price) <= 0 \/ Val(price) >= OneDollar THEN "Invalid price"
     ELSE IF shares < 1 \/ size < 200 * OneDollar THEN "Position size too small"
     ELSE IF Cost(shares, Val(price)) > e.balance THEN "Insufficient balance"
     ELSE ""

\* The gates of evaluateAndTrade after canTrade, in the order of the code:
\* the reason of the first one that fails, "" when none does.
SignalGate(e, data) ==
  LET price == SidePrice(data)
      size == PositionSize(e.balance, EdgeOf(data), e.maxPositionPct)
      shares == Shares(size, Val(price))
  IN IF data.action = "HOLD" \/ data.side = NullStr THEN "No actionable signal"
     ELSE IF EdgeOf(data) < minEdge THEN "Edge below min"
     ELSE IF data.strength # "STRONG" /\ data.strength # "GOOD" THEN "Signal not strong enough"
     ELSE IF data.phase = "LATE" THEN "Too late in window"
     ELSE IF price = None \/ Val(price) <= 0 \/ Val(price) >= OneDollar THEN "Invalid price"
     ELSE IF shares < 1 \/ size < 200 * OneDollar THEN "Position size too small"
     ELSE IF Cost(shares, Val(price)) > e.balance THEN "Insufficient balance"
     ELSE ""

PricesOf(data) ==
  [slug |-> data.slug, chainlink |-> data.chainlink, priceToBeat |-> data.priceToBeat]

MarketChanged(e, data) == Truthy(e.currentMarketSlug) /\ e.currentMarketSlug # data.slug

evaluateAndTrade(e, data, t) ==
  LET e1 == IF MarketChanged(e, data) THEN settlePositions(e, e.pendingSettlement, t) ELSE e
      e2 == [e1 EXCEPT !.currentMarketSlug = data.slug,
                       !.pendingSettlement = Some(PricesOf(data))]
      c == canTrade(e2, t)
      why == SignalGate(c.e, data)
      price == Val(SidePrice(data))
      shares == Shares(PositionSize(c.e.balance, EdgeOf(data), c.e.maxPositionPct), price)
  IN IF ~c.allowed THEN Return(c.e, FALSE, c.reason)
     ELSE IF why # "" THEN Return(c.e, FALSE, why)
     ELSE Return(Buy(c.e, data, price, shares, Cost(shares, price), t), TRUE, "")

\* loadData: the parsed content of DATA_FILE, null when the file is missing or
\* cannot be read or parsed.
loadData(file) ==
  IF file = None THEN None
  ELSE IF Has(Val(file), "unparseable") THEN None
  ELSE file

\* the Map built from no entry at all
MapFromNothing(entries) == <<>>

\* new Map(saved.positions || []): the values are the objects JSON.parse made,
\* not the objects of the trade list.
MapFromEntries(entries) == [i \in 1..Len(entries) |-> [ref |-> 0, t |-> entries[i]]]

\* new PaperTrader({ startingBalance: 1000 }): resume from the store, or a fresh
\* start.  The resume branch ends with this.balance.toFixed(2), which throws
\* when the record has no balance: the module then fails to load, no object is
\* exported and no field of the one under construction is read again (its
\* balance is written 0 here).
constructor(file, maxPositionPct) ==
  LET store == loadData(file)
      fresh == store = None
      saved == Val(store)
      thrown == ~fresh /\ ~Has(saved, "balance")
  IN [startingBalance |-> IF fresh THEN defaultStartingBalance
                          ELSE IF FieldOr(saved, "startingBalance", 0) = 0
                          THEN defaultStartingBalance
                          ELSE saved.startingBalance,
      balance |-> IF fresh THEN defaultStartingBalance ELSE FieldOr(saved, "balance", 0),
      trades |-> IF fresh THEN <<>> ELSE FieldOr(saved, "trades", <<>>),
      positions |-> IF fresh THEN <<>>
                    ELSE MapFromEntries(FieldOr(saved, "positions", <<>>)),
      enabled |-> IF fresh THEN FALSE ELSE FieldOr(saved, "enabled", FALSE),
      stats |-> IF fresh THEN initStats ELSE FieldOr(saved, "stats", initStats),
      sessionHistory |-> IF fresh THEN <<>> ELSE FieldOr(saved, "sessionHistory", <<>>),
      lifetimeStats |-> IF fresh THEN initLifetimeStats
                        ELSE FieldOr(saved, "lifetimeStats", initLifetimeStats),
      maxPositionPct |-> maxPositionPct,
      lastTradeTime |-> None,
      currentMarketSlug |-> NullStr,
      pendingSettlement |-> None,
      store |-> file,
      obs |-> [NoObs EXCEPT !.built = TRUE, !.thrown = thrown]]

(***************************************************************************)
(* updateData: the price-to-beat latch.                                    *)
(***************************************************************************)
\* let priceToBeatState = { slug: null, value: null, setAtMs: null }
initPriceToBeatState == [slug |-> NullStr, value |-> None, setAtMs |-> None]

\* the latch that takes the oracle price of every cycle
LatchEveryCycle(state, marketSlug, currentPrice, marketStartMs, nowMs) ==
  IF currentPrice # None /\ marketSlug # ""
  THEN [slug |-> marketSlug, value |-> currentPrice, setAtMs |-> Some(nowMs)]
  ELSE state

\* The two statements on priceToBeatState: a new slug clears the latch, and an
\* empty latch takes the oracle price once the window has started.
Latch(state, marketSlug, currentPrice, marketStartMs, nowMs) ==
  LET cleared == IF marketSlug # "" /\ state.slug # marketSlug
                 THEN [slug |-> marketSlug, value |-> None, setAtMs |-> None]
                 ELSE state
      okToLatch == IF marketStartMs = None THEN TRUE ELSE nowMs >= Val(marketStartMs)
  IN IF Truthy(cleared.slug) /\ cleared.value = None /\ currentPrice # None /\ okToLatch
     THEN [slug |-> cleared.slug, value |-> currentPrice, setAtMs |-> Some(nowMs)]
     ELSE cleared

\* const priceToBeat = priceToBeatState.slug === marketSlug ? value : null
PriceToBeat(state, marketSlug) == IF state.slug = marketSlug THEN state.value ELSE None

(***************************************************************************)
(* updateData and GET /api/data: the published snapshot.                   *)
(***************************************************************************)
\* rec of decide() with the venue prices it was computed from, as the snapshot
\* carries them; poly not ok: no venue price, no edge, HOLD
NoDecision ==
  [action |-> "HOLD", side |-> NullStr, strength |-> NullStr, edge |-> None,
   phase |-> "MID", upPrice |-> None, downPrice |-> None]

\* latestData = { timestamp, market, timing, prices, polymarket, signal, ... }:
\* the object literal of one cycle, reduced to the fields the traders read
BuildSnapshot(state, marketSlug, currentPrice, rec, t) ==
  [timestamp |-> t, slug |-> marketSlug, chainlink |-> currentPrice,
   priceToBeat |-> PriceToBeat(state, marketSlug),
   action |-> rec.action, side |-> rec.side, strength |-> rec.strength,
   edge |-> rec.edge, phase |-> rec.phase,
   upPrice |-> rec.upPrice, downPrice |-> rec.downPrice]

\* the publication that writes the new prices into the published object and
\* leaves its other fields for later
PublishInPlace(prev, snapshot) ==
  IF prev = None THEN Some(snapshot)
  ELSE Some([Val(prev) EXCEPT !.chainlink = snapshot.chainlink,
                              !.priceToBeat = snapshot.priceToBeat])

\* latestData = {...}: the variable is bound to the new object
Publish(prev, snapshot) == Some(snapshot)

\* the catch that blanks the snapshot
OnUpdateErrorBlank(prev) == None

\* catch (err) { console.error(...) }: latestData is not assigned
OnUpdateError(prev) == prev

\* the loop that dies with the exception of a cycle
AfterUpdateUncaught(failed) == IF failed THEN "crashed" ELSE "auto"

\* where the loop goes on after await updateData(), failed or not
AfterUpdate(failed) == "auto"

\* GET /api/data
ApiDataResponse(ld) ==
  IF ld = None THEN [status |-> 503, body |-> None] ELSE [status |-> 200, body |-> ld]

\* For the properties: count and last, the number of snapshots the cycles have
\* built and the latest of them as it was built; failed, the number of cycles
\* that ended in the catch; response, the latest answer of GET /api/data with
\* seen, the value of count when it was given.
NoDataLog == [count |-> 0, last |-> None, failed |-> 0, response |-> None]

(***************************************************************************)
(* updateData: the VWAP cross counter.  closes and vwapSeries are the       *)
(* arrays of a cycle, 1-based here; an index past the end reads undefined   *)
(* and the difference is NaN (None).                                       *)
(***************************************************************************)
\* closes[j] - vwapSeries[j]
Diff(closes, vwapSeries, j) ==
  IF j \in DOMAIN closes /\ j \in DOMAIN vwapSeries
  THEN Some(closes[j] - vwapSeries[j]) ELSE None

\* if (prev === 0) continue; if ((prev > 0 && cur < 0) || (prev < 0 && cur > 0))
IsCross(prev, cur) ==
  /\ prev # None /\ cur # None
  /\ Val(prev) # 0
  /\ (Val(prev) > 0 /\ Val(cur) < 0) \/ (Val(prev) < 0 /\ Val(cur) > 0)

\* null (None) when either series is shorter than the lookback, else the count
\* over i = closes.length - lookback + 1 .. closes.length - 1 (0-based)
countVwapCrosses(closes, vwapSeries, lookback) ==
  IF Len(closes) < lookback \/ Len(vwapSeries) < lookback THEN None
  ELSE Some(Cardinality({j \in (Len(closes) - lookback + 2)..Len(closes) :
                           IsCross(Diff(closes, vwapSeries, j - 1),
                                   Diff(closes, vwapSeries, j))}))

\* one call of countVwapCrosses: its arguments and, once called, its result
NoCrossCall ==
  [closes |-> <<>>, vwapSeries |-> <<>>, lookback |-> CrossLookback,
   called |-> FALSE, result |-> None]

(***************************************************************************)
(* The AutoTrader object: a record of its fields; positions is the Map     *)
(* tokenId -> position as a function.  ready is isTraderReady().           *)
(***************************************************************************)
AutoTraderNew ==
  [enabled |-> FALSE, maxPositionSize |-> autoMaxPositionSize, minEdge |-> autoMinEdge,
   maxDailyLoss |-> autoMaxDailyLoss, dailyPnL |-> 0, lastTradeTime |-> None,
   cooldownMs |-> autoCooldownMs, positions |-> <<>>]

\* the return value of the last AutoTrader.evaluateAndTrade, or the exception;
\* submitted: the call reached placeBuyOrder
NoAutoObs ==
  [called |-> FALSE, traded |-> FALSE, reason |-> "", thrown |-> FALSE,
   submitted |-> FALSE]

\* canTrade with the cooldown looked at before the daily loss
AutoCanTradeCooldownFirst(a, ready, t) ==
  IF ~a.enabled THEN "Auto-trading disabled"
  ELSE IF ~ready THEN "Trader not initialized"
  ELSE IF a.lastTradeTime # None /\ t - Val(a.lastTradeTime) < a.cooldownMs
  THEN "Cooldown remaining"
  ELSE IF a.dailyPnL <= 0 - a.maxDailyLoss THEN "Daily loss limit reached"
  ELSE ""

\* canTrade without the cooldown
AutoCanTradeNoCooldown(a, ready, t) ==
  IF ~a.enabled THEN "Auto-trading disabled"
  ELSE IF ~ready THEN "Trader not initialized"
  ELSE IF a.dailyPnL <= 0 - a.maxDailyLoss THEN "Daily loss limit reached"
  ELSE ""

AutoCanTrade(a, ready, t) ==
  IF ~a.enabled THEN "Auto-trading disabled"
  ELSE IF ~ready THEN "Trader not initialized"
  ELSE IF a.dailyPnL <= 0 - a.maxDailyLoss THEN "Daily loss limit reached"
  ELSE IF a.lastTradeTime # None /\ t - Val(a.lastTradeTime) < a.cooldownMs
  THEN "Cooldown remaining"
  ELSE ""

\* market.tokens is poly.tokens when the market was resolved, else null
AutoTokenId(data) ==
  IF data.slug = "" \/ data.side = NullStr THEN NullStr
  ELSE IF data.side = "UP" THEN "upTokenId" ELSE "downTokenId"

\* Math.min(Math.floor(maxPositionSize * kellyFraction * 10), maxPositionSize)
\* with kellyFraction = Math.min(edgeValue / 2, 0.1)
AutoShares(a, data) ==
  Min((a.maxPositionSize * Min(EdgeOf(data), 20)) \div 20, a.maxPositionSize)

\* the gates with the edge message built before the signal is looked at
AutoGateEdgeFirst(a, ready, data, t) ==
  LET can == AutoCanTrade(a, ready, t)
  IN IF can # "" THEN [reason |-> can, thrown |-> FALSE]
     ELSE IF data.edge = None THEN [reason |-> "", thrown |-> TRUE]
     ELSE IF EdgeOf(data) < a.minEdge THEN [reason |-> "Edge below minimum", thrown |-> FALSE]
     ELSE IF data.action = "HOLD" \/ data.side = NullStr
     THEN [reason |-> "No actionable signal", thrown |-> FALSE]
     ELSE [reason |-> "", thrown |-> FALSE]

\* The gates of AutoTrader.evaluateAndTrade: the reason of the first one that
\* fails, "" when none does.  The edge message calls signal.edge.toFixed(1),
\* which throws a TypeError when signal.edge is null.
AutoGate(a, ready, data, t) ==
  LET can == AutoCanTrade(a, ready, t)
      price == SidePrice(data)
  IN IF can # "" THEN [reason |-> can, thrown |-> FALSE]
     ELSE IF data.action = "HOLD" \/ data.side = NullStr
     THEN [reason |-> "No actionable signal", thrown |-> FALSE]
     ELSE IF EdgeOf(data) < a.minEdge
     THEN IF data.edge = None THEN [reason |-> "", thrown |-> TRUE]
          ELSE [reason |-> "Edge below minimum", thrown |-> FALSE]
     ELSE IF data.strength # "STRONG"
     THEN [reason |-> "Only STRONG signals are auto-traded", thrown |-> FALSE]
     ELSE IF AutoTokenId(data) = NullStr THEN [reason |-> "Missing token ID", thrown |-> FALSE]
     ELSE IF price = None \/ Val(price) <= 0
     THEN [reason |-> "Invalid market price", thrown |-> FALSE]
     ELSE IF AutoShares(a, data) < 1
     THEN [reason |-> "Calculated position too small", thrown |-> FALSE]
     ELSE [reason |-> "", thrown |-> FALSE]

\* AutoTrader.evaluateAndTrade; placed is result.success of placeBuyOrder, which
\* catches the errors of the order client and returns them as result.error.
AutoEvaluateAndTrade(a, ready, data, t, placed) ==
  LET g == AutoGate(a, ready, data, t)
      position == [side |-> data.side, shares |-> AutoShares(a, data),
                   entryPrice |-> Val(SidePrice(data)), timestamp |-> t]
  IN IF g.thrown
     THEN [a |-> a, ret |-> [NoAutoObs EXCEPT !.called = TRUE, !.thrown = TRUE]]
     ELSE IF g.reason # ""
     THEN [a |-> a, ret |-> [NoAutoObs EXCEPT !.called = TRUE, !.reason = g.reason]]
     ELSE IF placed
     THEN [a |-> [a EXCEPT !.lastTradeTime = Some(t),
                           !.positions = (AutoTokenId(data) :> position) @@ a.positions],
           ret |-> [NoAutoObs EXCEPT !.called = TRUE, !.traded = TRUE, !.submitted = TRUE]]
     ELSE [a |-> a,
           ret |-> [NoAutoObs EXCEPT !.called = TRUE, !.reason = "order error",
                                     !.submitted = TRUE]]

\* POST /api/trader/auto/config: every field the body defines is assigned
AutoConfigure(a, body) ==
  [a EXCEPT !.maxPositionSize = FieldOr(body, "maxPositionSize", @),
            !.minEdge = FieldOr(body, "minEdge", @),
            !.maxDailyLoss = FieldOr(body, "maxDailyLoss", @),
            !.cooldownMs = FieldOr(body, "cooldownMs", @)]

\* What the live account went through, kept for the properties: the orders
\* handed to placeBuyOrder (lost: the market resolved against the order),
\* dayLoss, the cost of the orders of the day lost so far, and call, the
\* AutoTrader before and after the last evaluateAndTrade with its snapshot.
NoLive == [orders |-> <<>>, dayLoss |-> 0, call |-> <<>>]

(***************************************************************************)
(* State: the fields of the paperTrader singleton, the store, the clock,   *)
(* obs, the record of what the last handler did, and of the server module  *)
(* priceToBeatState and latestData (its market slug and prices) with       *)
(* latchLog, the list of the latches made so far; pc, the place of          *)
(* startDataLoop: "update" before updateData, "fetching" at the await of    *)
(* its fetches, "auto" and "paper" before the two trader blocks, "ordering" *)
(* at the await of placeBuyOrder, "sleep" at the await of sleep.            *)
(***************************************************************************)
VARIABLES startingBalance, balance, trades, positions, enabled, stats,
          sessionHistory, lifetimeStats, maxPositionPct, lastTradeTime,
          currentMarketSlug, pendingSettlement, store, obs, now, events,
          priceToBeatState, latestData, latchLog, vwapCross, pc, dataLog,
          autoTrader, traderReady, autoObs, live

vars == <<startingBalance, balance, trades, positions, enabled, stats,
          sessionHistory, lifetimeStats, maxPositionPct, lastTradeTime,
          currentMarketSlug, pendingSettlement, store, obs, now, events,
          priceToBeatState, latestData, latchLog, vwapCross, pc, dataLog,
          autoTrader, traderReady, autoObs, live>>

EngineVars == <<startingBalance, balance, trades, positions, enabled, stats,
                sessionHistory, lifetimeStats, maxPositionPct, lastTradeTime,
                currentMarketSlug, pendingSettlement, store, obs>>

\* the variables of the server module
LatchVars == <<priceToBeatState, latestData, latchLog, vwapCross, pc, dataLog>>

AutoVars == <<autoTrader, traderReady, autoObs, live>>

This ==
  [startingBalance |-> startingBalance, balance |-> balance, trades |-> trades,
   positions |-> positions, enabled |-> enabled, stats |-> stats,
   sessionHistory |-> sessionHistory, lifetimeStats |-> lifetimeStats,
   maxPositionPct |-> maxPositionPct, lastTradeTime |-> lastTradeTime,
   currentMarketSlug |-> currentMarketSlug, pendingSettlement |-> pendingSettlement,
   store |-> store, obs |-> obs]

Is(e) ==
  /\ startingBalance = e.startingBalance
  /\ balance = e.balance
  /\ trades = e.trades
  /\ positions = e.positions
  /\ enabled = e.enabled
  /\ stats = e.stats
  /\ sessionHistory = e.sessionHistory
  /\ lifetimeStats = e.lifetimeStats
  /\ maxPositionPct = e.maxPositionPct
  /\ lastTradeTime = e.lastTradeTime
  /\ currentMarketSlug = e.currentMarketSlug
  /\ pendingSettlement = e.pendingSettlement
  /\ store = e.store
  /\ obs = e.obs

Becomes(e) ==
  /\ startingBalance' = e.startingBalance
  /\ balance' = e.balance
  /\ trades' = e.trades
  /\ positions' = e.positions
  /\ enabled' = e.enabled
  /\ stats' = e.stats
  /\ sessionHistory' = e.sessionHistory
  /\ lifetimeStats' = e.lifetimeStats
  /\ maxPositionPct' = e.maxPositionPct
  /\ lastTradeTime' = e.lastTradeTime
  /\ currentMarketSlug' = e.currentMarketSlug
  /\ pendingSettlement' = e.pendingSettlement
  /\ store' = e.store
  /\ obs' = e.obs

(***************************************************************************)
(* Inputs.  A snapshot is latestData as updateData builds it, reduced to   *)
(* the fields the paper engine reads.                                      *)
(***************************************************************************)
Slugs == {"", "btc-15m-A", "btc-15m-B"}
Sides == {"UP", "DOWN"}
Strengths == {"STRONG", "GOOD", "OPTIONAL"}
Phases == {"EARLY", "MID", "LATE"}

\* <<prices.chainlink, prices.priceToBeat>>: above, at and below the latched
\* price, and a snapshot taken before the latch
OraclePairs ==
  {<<Some(60123), Some(60000)>>, <<Some(60000), Some(60000)>>,
   <<Some(59000), Some(60000)>>, <<Some(60000), None>>}

\* <<polymarket.upPrice, polymarket.downPrice>>, venue buy prices in cents
VenuePairs == {<<Some(40), Some(60)>>, <<Some(100), Some(0)>>}

\* the maxPositionPct option of the constructor
MaxPositionPctOptions == {defaultMaxPositionPct, 50}

\* req.body.startingBalance of POST /api/paper/reset, None when absent
ResetRequests == {Some(0 - 500), Some(1100)}

\* req.body.outcome of POST /api/paper/settle
SettleRequests == {"UP", "DOWN"}

\* req.body.outcome when it is neither: another string, or absent ("")
OtherOutcomes == {"SIDEWAYS", ""}

\* DATA_FILE as a restart can find it when something else touched it: deleted,
\* not JSON, a JSON object without a balance
DamagedFiles == {None, Some([unparseable |-> TRUE]), Some([enabled |-> TRUE])}

\* signal HOLD: no side, strength or edge (updateData, "Determine signal")
HoldSnapshots(O, P, V) ==
  {[slug |-> s, chainlink |-> o[1], priceToBeat |-> o[2], action |-> "HOLD",
    side |-> NullStr, strength |-> NullStr, edge |-> None, phase |-> ph,
    upPrice |-> v[1], downPrice |-> v[2]] :
     s \in Slugs \ {""}, o \in O, ph \in P, v \in V}

\* signal BUY_<side> with the strength and the edge of the side decide() picked
EnterSnapshots(O, G, X, P, V) ==
  {[slug |-> s, chainlink |-> o[1], priceToBeat |-> o[2],
    action |-> IF d = "UP" THEN "BUY_UP" ELSE "BUY_DOWN",
    side |-> d, strength |-> g, edge |-> Some(x), phase |-> ph,
    upPrice |-> v[1], downPrice |-> v[2]] :
     s \in Slugs \ {""}, o \in O, d \in Sides, g \in G, x \in X, ph \in P, v \in V}

\* the market could not be resolved: empty slug, no venue price, no latch
UnresolvedSnapshots(P) ==
  {[slug |-> "", chainlink |-> Some(60000), priceToBeat |-> None, action |-> "HOLD",
    side |-> NullStr, strength |-> NullStr, edge |-> None, phase |-> ph,
    upPrice |-> None, downPrice |-> None] : ph \in P}

\* the snapshots the loop feeds the engine
LoopSnapshots ==
  HoldSnapshots({<<Some(60123), Some(60000)>>, <<Some(60000), None>>}, {"MID"},
                {<<Some(40), Some(60)>>})
    \cup EnterSnapshots(OraclePairs, {"STRONG"}, {25}, {"MID"}, {<<Some(40), Some(60)>>})
    \cup UnresolvedSnapshots({"MID"})

\* the snapshots of a direct call: every signal, phase and venue price
GateSnapshots ==
  HoldSnapshots({<<Some(60123), Some(60000)>>}, {"MID", "LATE"},
                {<<None, None>>, <<Some(40), Some(60)>>})
    \cup EnterSnapshots({<<Some(60123), Some(60000)>>}, Strengths, {5, 25},
                        {"MID", "LATE"}, VenuePairs)
    \cup UnresolvedSnapshots({"MID", "LATE"})

\* The nominal start of a market's 15-minute window, on the clock of the model:
\* the first cycle runs before either window has started.
WindowStart(slug) == IF slug = "btc-15m-A" THEN 2 * PollMs ELSE 3 * PollMs

\* poly of a cycle: the market was not found (ok false), or a market with or
\* without an eventStartTime
MarketDescriptors ==
  {[ok |-> FALSE, slug |-> "", eventStartTime |-> None]}
    \cup {[ok |-> TRUE, slug |-> s, eventStartTime |-> None] : s \in Slugs \ {""}}
    \cup {[ok |-> TRUE, slug |-> s, eventStartTime |-> Some(WindowStart(s))] :
             s \in Slugs \ {""}}

\* chainlink?.price ?? null
OraclePrices == {None, Some(60000), Some(60123)}

\* the snapshots handed to both traders: those of one market, and unresolved
TraderSnapshots == {d \in GateSnapshots : d.slug # "btc-15m-B"}

\* the state after construction on a machine without a store, but for the
\* arguments of countVwapCrosses
InitModules ==
  /\ \E pct \in MaxPositionPctOptions : Is(constructor(None, pct))
  /\ now = 0
  /\ events = 0
  /\ priceToBeatState = initPriceToBeatState
  /\ latestData = None
  /\ latchLog = <<>>
  /\ autoTrader = AutoTraderNew
  /\ traderReady = FALSE
  /\ autoObs = NoAutoObs
  /\ live = NoLive
  /\ pc = "update"
  /\ dataLog = NoDataLog

Init ==
  /\ InitModules
  /\ vwapCross = NoCrossCall

\* a request or a restart comes between two iterations of the loop
Served ==
  /\ events < MaxEvents
  /\ events' = events + 1
  /\ UNCHANGED <<now, LatchVars, AutoVars>>

\* GET /api/paper/status
ApiStatus ==
  /\ Becomes(getStatus(Begin(This)))
  /\ Served

\* POST /api/paper/enable
ApiEnable ==
  /\ Becomes(getStatus(enable(Begin(This))))
  /\ Served

\* POST /api/paper/disable
ApiDisable ==
  /\ Becomes(getStatus(disable(Begin(This))))
  /\ Served

\* POST /api/paper/reset: paperTrader.reset(startingBalance || 500)
ApiReset ==
  \E req \in ResetRequests :
    LET startBal == IF req = None \/ req = Some(0) THEN apiDefaultBalance ELSE Val(req)
    IN /\ Becomes(getStatus(reset(Begin(This), startBal, TRUE)))
       /\ Served

\* POST /api/paper/settle with an outcome of the set outcomes
ApiSettleOf(outcomes) ==
  \E outcome \in outcomes :
    /\ Becomes(getStatus(IF outcome # "" THEN forceSettle(Begin(This), outcome, now)
                         ELSE Begin(This)))
    /\ Served

\* POST /api/paper/settle
ApiSettle == ApiSettleOf(SettleRequests)

\* POST /api/paper/settle with any body
ApiSettleAny == ApiSettleOf(SettleRequests \cup OtherOutcomes)

\* One iteration of the data loop of startDataLoop, for the paper trader: the
\* snapshot of this cycle is evaluated when the engine is enabled, then the
\* loop sleeps.
LoopIteration ==
  /\ now < MaxCycles * PollMs
  /\ now' = now + PollMs
  /\ \E data \in LoopSnapshots :
       IF enabled
       THEN Becomes(evaluateAndTrade(Begin(This), data, now'))
       ELSE Becomes(Begin(This))
  /\ UNCHANGED <<events, LatchVars, AutoVars>>

\* paperTrader.evaluateAndTrade(data) called on its own, enabled or not; obs
\* keeps the snapshot it was given.
DirectCall ==
  /\ now' = now + PollMs
  /\ \E data \in GateSnapshots :
       Becomes([evaluateAndTrade(Begin(This), data, now') EXCEPT !.obs.data = <<data>>])
  /\ UNCHANGED <<events, LatchVars, AutoVars>>

\* The process is stopped and started again: the singleton is constructed anew.
Restart ==
  /\ Becomes(constructor(store, maxPositionPct))
  /\ Served

Next ==
  \/ ApiStatus
  \/ ApiEnable
  \/ ApiDisable
  \/ ApiReset
  \/ ApiSettle
  \/ LoopIteration
  \/ Restart

Spec == Init /\ [][Next]_vars

\* The engine driven as in Spec for at most MaxGateCycles iterations, then
\* one direct call of evaluateAndTrade, after which the run ends.
NextGates ==
  \/ obs.data = <<>> /\ now <= MaxGateCycles * PollMs /\ DirectCall
  \/ obs.data = <<>> /\ now < MaxGateCycles * PollMs /\ LoopIteration
  \/ obs.data = <<>> /\ ApiEnable
  \/ obs.data = <<>> /\ ApiDisable
  \/ obs.data = <<>> /\ ApiReset
  \/ obs.data = <<>> /\ ApiSettle
  \/ obs.data = <<>> /\ ApiStatus
  \/ obs.data = <<>> /\ Restart

SpecGates == Init /\ [][NextGates]_vars

\* One cycle of updateData, for its price-to-beat latch and the market and
\* prices of the snapshot it publishes; the paper engine is not called.
UpdateData ==
  /\ now < MaxLatchCycles * PollMs
  /\ now' = now + PollMs
  /\ \E poly \in MarketDescriptors, currentPrice \in OraclePrices :
       LET marketSlug == IF poly.ok THEN poly.slug ELSE ""
           marketStartMs == IF poly.ok THEN poly.eventStartTime ELSE None
           state == Latch(priceToBeatState, marketSlug, currentPrice, marketStartMs, now')
       IN /\ priceToBeatState' = state
          /\ latestData' = Some([slug |-> marketSlug, chainlink |-> currentPrice,
                                  priceToBeat |-> PriceToBeat(state, marketSlug)])
          /\ latchLog' = IF state.setAtMs = Some(now')
                          THEN Append(latchLog, [slug |-> state.slug, value |-> state.value,
                                                 at |-> now'])
                          ELSE latchLog
  /\ UNCHANGED <<EngineVars, events, AutoVars, vwapCross, pc, dataLog>>

\* A cycle whose fetches throw before the latch: updateData logs the error and
\* leaves priceToBeatState and latestData as they were.
UpdateDataFails ==
  /\ now < MaxLatchCycles * PollMs
  /\ now' = now + PollMs
  /\ UNCHANGED <<EngineVars, events, LatchVars, AutoVars>>

NextLatch ==
  \/ UpdateData
  \/ UpdateDataFails

SpecLatch == Init /\ [][NextLatch]_vars

\* initTrader succeeded before the loop started (a private key is configured)
InitTrader ==
  /\ now = 0 /\ ~traderReady
  /\ traderReady' = TRUE
  /\ UNCHANGED <<EngineVars, now, events, LatchVars, autoTrader, autoObs, live>>

\* POST /api/trader/auto/enable
AutoEnable ==
  /\ events < MaxEvents
  /\ events' = events + 1
  /\ autoTrader' = [autoTrader EXCEPT !.enabled = TRUE]
  /\ UNCHANGED <<EngineVars, now, LatchVars, traderReady, autoObs, live>>

\* POST /api/trader/auto/disable
AutoDisable ==
  /\ events < MaxEvents
  /\ events' = events + 1
  /\ autoTrader' = [autoTrader EXCEPT !.enabled = FALSE]
  /\ UNCHANGED <<EngineVars, now, LatchVars, traderReady, autoObs, live>>

\* One snapshot handed to autoTrader.evaluateAndTrade and then to
\* paperTrader.evaluateAndTrade, as the loop does, whether they are enabled or
\* not; obs keeps the snapshot.
EvaluateBoth ==
  /\ now < MaxTraderCycles * PollMs
  /\ now' = now + PollMs
  /\ \E data \in TraderSnapshots, placed \in BOOLEAN :
       LET r == AutoEvaluateAndTrade(autoTrader, traderReady, data, now', placed)
       IN /\ autoTrader' = r.a
          /\ autoObs' = r.ret
          /\ Becomes([evaluateAndTrade(Begin(This), data, now')
                        EXCEPT !.obs.data = <<data>>])
  /\ UNCHANGED <<events, LatchVars, traderReady, live>>

NextTraders ==
  \/ InitTrader
  \/ AutoEnable
  \/ AutoDisable
  \/ ApiEnable
  \/ EvaluateBoth

SpecTraders == Init /\ [][NextTraders]_vars

\* a snapshot no cycle builds, handed to evaluateAndTrade by a caller: an ENTER
\* signal on a snapshot without the tokens of a market and without its prices
DetachedSnapshots ==
  {[slug |-> "", chainlink |-> Some(60000), priceToBeat |-> None, action |-> "BUY_DOWN",
    side |-> "DOWN", strength |-> "STRONG", edge |-> Some(25), phase |-> "MID",
    upPrice |-> None, downPrice |-> None]}

\* the snapshots handed to the AutoTrader alone: HOLD, and the DOWN signals of
\* one market with a strong or a weak strength, a high or a low edge and a
\* venue price of 0.60 or 0
LiveSnapshots ==
  {d \in HoldSnapshots({<<Some(60123), Some(60000)>>}, {"MID"}, {<<Some(40), Some(60)>>})
            \cup EnterSnapshots({<<Some(60123), Some(60000)>>}, {"STRONG", "OPTIONAL"},
                                {5, 25}, {"MID"}, VenuePairs) :
      d.slug = "btc-15m-A" /\ d.side # "UP"}
    \cup UnresolvedSnapshots({"MID"})
    \cup DetachedSnapshots

\* req.body of POST /api/trader/auto/config: the fields it defines, in the units
\* of the model
ConfigRequests ==
  {[maxDailyLoss |-> 300], [maxDailyLoss |-> 0], [cooldownMs |-> 30000],
   [minEdge |-> 0 - 5]}

\* POST /api/trader/auto/config
AutoConfig ==
  /\ events < MaxEvents
  /\ events' = events + 1
  /\ \E body \in ConfigRequests : autoTrader' = AutoConfigure(autoTrader, body)
  /\ UNCHANGED <<EngineVars, now, LatchVars, traderReady, autoObs, live>>

\* One snapshot handed to autoTrader.evaluateAndTrade, enabled or not; placed is
\* the success of placeBuyOrder when the call reaches it.
LiveEvaluate ==
  /\ now < MaxLiveCycles * PollMs
  /\ now' = now + PollMs
  /\ \E data \in LiveSnapshots, placed \in BOOLEAN :
       LET r == AutoEvaluateAndTrade(autoTrader, traderReady, data, now', placed)
           order == [at |-> now', tokenId |-> AutoTokenId(data),
                     shares |-> AutoShares(autoTrader, data),
                     price |-> Val(SidePrice(data)), success |-> r.ret.traded,
                     lost |-> FALSE, cooldownMs |-> autoTrader.cooldownMs,
                     stampBefore |-> autoTrader.lastTradeTime]
       IN /\ autoTrader' = r.a
          /\ autoObs' = r.ret
          /\ live' = [live EXCEPT
                        !.orders = IF r.ret.submitted THEN Append(@, order) ELSE @,
                        !.call = <<[a |-> autoTrader, ready |-> traderReady,
                                    data |-> data, at |-> now',
                                    dayLoss |-> live.dayLoss, after |-> r.a]>>]
  /\ UNCHANGED <<EngineVars, events, LatchVars, traderReady>>

\* The market of a filled order resolves against it: the account has lost the
\* cost of the order.  No statement of the AutoTrader runs: dailyPnL is written
\* by the constructor only.
LiveMarketResolves ==
  /\ \E i \in 1..Len(live.orders) :
       /\ live.orders[i].success /\ ~live.orders[i].lost
       /\ live' = [live EXCEPT !.orders[i].lost = TRUE,
                               !.dayLoss = @ + live.orders[i].shares * live.orders[i].price]
  /\ UNCHANGED <<EngineVars, now, events, LatchVars, autoTrader, traderReady, autoObs>>

NextLive ==
  \/ InitTrader
  \/ AutoEnable
  \/ AutoDisable
  \/ AutoConfig
  \/ LiveEvaluate
  \/ LiveMarketResolves

SpecLive == Init /\ [][NextLive]_vars

\* poly of a cycle of the loop: not found, or one of two markets
LoopMarkets ==
  {[ok |-> FALSE, slug |-> "", eventStartTime |-> None]}
    \cup {[ok |-> TRUE, slug |-> s, eventStartTime |-> None] : s \in Slugs \ {""}}

\* chainlink?.price ?? null of a cycle of the loop
LoopOraclePrices == {Some(60000), Some(60123)}

\* rec of a cycle on a market that was found: HOLD, or ENTER UP
LoopDecisions ==
  {[NoDecision EXCEPT !.upPrice = Some(40), !.downPrice = Some(60)],
   [action |-> "BUY_UP", side |-> "UP", strength |-> "STRONG", edge |-> Some(25),
    phase |-> "MID", upPrice |-> Some(40), downPrice |-> Some(60)]}

\* await updateData(): up to the await of the fetches
CycleStart ==
  /\ pc = "update"
  /\ now < MaxLoopCycles * PollMs
  /\ pc' = "fetching"
  /\ UNCHANGED <<EngineVars, now, events, priceToBeatState, latestData, latchLog,
                 vwapCross, dataLog, AutoVars>>

\* The fetches resolved: the rest of the try block runs without an await, from
\* the indicators to the latch and the assignment of latestData.
CycleBuilds ==
  /\ pc = "fetching"
  /\ \E poly \in LoopMarkets, currentPrice \in LoopOraclePrices, rec \in LoopDecisions :
       LET marketSlug == IF poly.ok THEN poly.slug ELSE ""
           marketStartMs == IF poly.ok THEN poly.eventStartTime ELSE None
           state == Latch(priceToBeatState, marketSlug, currentPrice, marketStartMs, now)
           snapshot == BuildSnapshot(state, marketSlug, currentPrice,
                                     IF poly.ok THEN rec ELSE NoDecision, now)
       IN /\ priceToBeatState' = state
          /\ latestData' = Publish(latestData, snapshot)
          /\ latchLog' = IF state.setAtMs = Some(now) /\ state # priceToBeatState
                          THEN Append(latchLog, [slug |-> state.slug, value |-> state.value,
                                                 at |-> now])
                          ELSE latchLog
          /\ dataLog' = [dataLog EXCEPT !.count = @ + 1, !.last = Some(snapshot)]
  /\ pc' = AfterUpdate(FALSE)
  /\ UNCHANGED <<EngineVars, now, events, vwapCross, AutoVars>>

\* A fetch rejected: the catch of updateData logs the error.
CycleFails ==
  /\ pc = "fetching"
  /\ latestData' = OnUpdateError(latestData)
  /\ dataLog' = [dataLog EXCEPT !.failed = @ + 1]
  /\ pc' = AfterUpdate(TRUE)
  /\ UNCHANGED <<EngineVars, now, events, priceToBeatState, latchLog, vwapCross, AutoVars>>

\* if (latestData && autoTrader.isEnabled()): evaluateAndTrade up to its return
\* at a gate, or to the await of placeBuyOrder; an exception is caught and
\* logged.
RunAutoTrader ==
  /\ pc = "auto"
  /\ IF latestData # None /\ autoTrader.enabled
     THEN LET g == AutoGate(autoTrader, traderReady, Val(latestData), now)
          IN IF g.thrown \/ g.reason # ""
             THEN /\ autoObs' = AutoEvaluateAndTrade(autoTrader, traderReady,
                                                     Val(latestData), now, FALSE).ret
                  /\ pc' = "paper"
             ELSE /\ autoObs' = autoObs
                  /\ pc' = "ordering"
     ELSE /\ autoObs' = autoObs
          /\ pc' = "paper"
  /\ UNCHANGED <<EngineVars, now, events, priceToBeatState, latestData, latchLog,
                 vwapCross, dataLog, autoTrader, traderReady, live>>

\* placeBuyOrder returned: the rest of evaluateAndTrade.  Nothing that runs at
\* this await writes latestData or a field of the AutoTrader the call reads.
OrderReturns ==
  /\ pc = "ordering"
  /\ \E placed \in BOOLEAN :
       LET r == AutoEvaluateAndTrade(autoTrader, traderReady, Val(latestData), now, placed)
       IN autoTrader' = r.a /\ autoObs' = r.ret
  /\ pc' = "paper"
  /\ UNCHANGED <<EngineVars, now, events, priceToBeatState, latestData, latchLog,
                 vwapCross, dataLog, traderReady, live>>

\* if (latestData && paperTrader.isEnabled()): evaluateAndTrade
RunPaperTrader ==
  /\ pc = "paper"
  /\ \E e \in {IF latestData # None /\ enabled
                THEN evaluateAndTrade(Begin(This), Val(latestData), now)
                ELSE Begin(This)} : Becomes(e)
  /\ pc' = "sleep"
  /\ UNCHANGED <<now, events, priceToBeatState, latestData, latchLog, vwapCross,
                 dataLog, AutoVars>>

\* await sleep(CONFIG.pollIntervalMs)
Sleep ==
  /\ pc = "sleep"
  /\ now' = now + PollMs
  /\ pc' = "update"
  /\ UNCHANGED <<EngineVars, events, priceToBeatState, latestData, latchLog, vwapCross,
                 dataLog, AutoVars>>

\* GET /api/data
ApiData ==
  /\ dataLog' = [dataLog EXCEPT
                   !.response = Some([status |-> ApiDataResponse(latestData).status,
                                      body |-> ApiDataResponse(latestData).body,
                                      seen |-> dataLog.count])]
  /\ UNCHANGED <<EngineVars, now, events, priceToBeatState, latestData, latchLog,
                 vwapCross, pc, AutoVars>>

\* the loop is at an await: the handlers of the requests that came in run
AtAwait == pc \in {"fetching", "ordering", "sleep"}

\* one step of startDataLoop
LoopStep ==
  \/ CycleStart
  \/ CycleBuilds
  \/ CycleFails
  \/ RunAutoTrader
  \/ OrderReturns
  \/ RunPaperTrader
  \/ Sleep

\* startDataLoop await by await, with the requests served at its awaits
NextLoop ==
  \/ LoopStep
  \/ pc = "update" /\ InitTrader
  \/ AtAwait /\ ApiData
  \/ AtAwait /\ ApiEnable
  \/ AtAwait /\ AutoEnable

SpecLoop == Init /\ [][NextLoop]_vars

\* startDataLoop with the requests that switch the two traders on, without the
\* status requests, which write nothing the loop reads
NextCycles ==
  \/ LoopStep
  \/ pc = "update" /\ InitTrader
  \/ AtAwait /\ ApiEnable
  \/ AtAwait /\ AutoEnable

SpecCycles == Init /\ [][NextCycles]_vars

\* The command endpoints with any body, on an engine the loop trades with.
NextRequests ==
  \/ ApiEnable
  \/ LoopIteration
  \/ ApiReset
  \/ ApiSettleAny
  \/ AutoConfig

SpecRequests == Init /\ [][NextRequests]_vars

(***************************************************************************)
(* The calls the handlers and the loop make on the paperTrader, one call   *)
(* per step: a command handler is the call of its command followed by the *)
(* call of getStatus, so that the state getStatus is called in is a state *)
(* of the run.                                                             *)
(***************************************************************************)
Called ==
  /\ events < MaxCalls
  /\ events' = events + 1
  /\ UNCHANGED <<now, LatchVars, AutoVars>>

\* paperTrader.enable()
EnableCall ==
  /\ Becomes(enable(Begin(This)))
  /\ Called

\* paperTrader.reset(startingBalance || 500)
ResetCall ==
  \E req \in ResetRequests :
    LET startBal == IF req = None \/ req = Some(0) THEN apiDefaultBalance ELSE Val(req)
    IN /\ Becomes(reset(Begin(This), startBal, TRUE))
       /\ Called

\* paperTrader.forceSettle(outcome)
ForceSettleCall ==
  \E outcome \in SettleRequests :
    /\ Becomes(forceSettle(Begin(This), outcome, now))
    /\ Called

\* paperTrader.getStatus(): the GET handler, or the end of a command handler
GetStatusCall ==
  /\ Becomes(getStatus(Begin(This)))
  /\ UNCHANGED <<now, events, LatchVars, AutoVars>>

NextCalls ==
  \/ EnableCall
  \/ ResetCall
  \/ ForceSettleCall
  \/ GetStatusCall
  \/ LoopIteration

SpecCalls == Init /\ [][NextCalls]_vars

\* The process is started again on a DATA_FILE that is not the one it wrote.
RestartDamaged ==
  /\ \E file \in DamagedFiles : Becomes(constructor(file, maxPositionPct))
  /\ Served

\* The engine driven as in Spec, with restarts on a damaged DATA_FILE; a
\* process whose module failed to load serves nothing.
NextStore ==
  \/ ~obs.thrown /\ RestartDamaged
  \/ ~obs.thrown /\ Restart
  \/ ~obs.thrown /\ LoopIteration
  \/ ~obs.thrown /\ ApiEnable
  \/ ~obs.thrown /\ ApiDisable
  \/ ~obs.thrown /\ ApiReset
  \/ ~obs.thrown /\ ApiSettle
  \/ ~obs.thrown /\ ApiStatus

SpecStore == Init /\ [][NextStore]_vars

\* closes and vwapSeries of one cycle: up to MaxBars bars around a VWAP of 100
SeqsUpTo(n, S) == UNION {[1..k -> S] : k \in 0..n}

CloseValues == {99, 100, 101}

VwapValues == {100, 101}

CrossInputs ==
  {[closes |-> c, vwapSeries |-> v, lookback |-> CrossLookback,
    called |-> FALSE, result |-> None] :
     c \in SeqsUpTo(MaxBars, CloseValues), v \in SeqsUpTo(MaxBars, VwapValues)}

\* the server before a call of countVwapCrosses on the series of a cycle
InitCross ==
  /\ InitModules
  /\ vwapCross \in CrossInputs

\* const vwapCrossCount = countVwapCrosses(closes, vwapSeries, 20)
CountVwapCrosses ==
  /\ ~vwapCross.called
  /\ vwapCross' = [vwapCross EXCEPT
                     !.called = TRUE,
                     !.result = countVwapCrosses(vwapCross.closes, vwapCross.vwapSeries,
                                                 vwapCross.lookback)]
  /\ UNCHANGED <<EngineVars, now, events, priceToBeatState, latestData, latchLog, pc,
                 dataLog, AutoVars>>

NextCross == CountVwapCrosses

SpecCross == InitCross /\ [][NextCross]_vars

(***************************************************************************)
(* Properties.                                                             *)
(***************************************************************************)
OpenIds(entries) == {entries[i].t.id : i \in {j \in 1..Len(entries) : entries[j].t.status = "OPEN"}}

\* C1: a successful evaluateAndTrade entry debits the balance by exactly
\* cost = shares * entryPrice and adds one OPEN position of that cost, so
\* balance + sum(cost of OPEN positions) is the same before and after the buy.
C1_BuyConservesValue ==
  obs.buy # <<>> =>
    LET b == obs.buy[1] IN
      /\ obs.traded
      /\ b.trade.cost = b.trade.shares * b.trade.entryPrice
      /\ balance = b.balanceBefore - b.trade.cost
      /\ Len(positions) = b.openBefore + 1
      /\ positions[Len(positions)].t = b.trade
      /\ b.trade.status = "OPEN"
      /\ balance + OpenCost(positions) = b.balanceBefore + b.openCostBefore

\* a buy made while an earlier position is still open
C1_Witness ==
  /\ obs.buy # <<>>
  /\ obs.buy[1].openBefore > 0
  /\ obs.buy[1].trade.cost > 0

\* C2: a settlement (settlePositions or forceSettle) credits the balance with
\* exactly the payout, 1 dollar per share when the side equals the outcome and 0
\* otherwise, and sets pnl = payout - cost; UP, 125 shares, cost 50, outcome UP
\* pays 125 with pnl +75.
C2_SettlementPayout ==
  \A i \in 1..Len(obs.settled) :
    LET ev == obs.settled[i] IN
      /\ ev.status \in {"SETTLED", "FORCE_SETTLED"}
      /\ ev.payout = (IF ev.side = ev.outcome THEN ev.shares * OneDollar ELSE 0)
      /\ ev.balanceAfter = ev.balanceBefore + ev.payout
      /\ ev.pnl = ev.payout - ev.cost
      /\ i > 1 => ev.balanceBefore = obs.settled[i - 1].balanceAfter
      /\ (ev.side = "UP" /\ ev.shares = 125 /\ ev.cost = 5000 /\ ev.outcome = "UP")
            => (ev.payout = 12500 /\ ev.pnl = 7500)
      /\ (ev.side = "DOWN" /\ ev.outcome = "UP") => (ev.payout = 0 /\ ev.pnl = 0 - ev.cost)

\* the example of the specification, settled by a market change
C2_Witness ==
  \E i \in 1..Len(obs.settled) :
    LET ev == obs.settled[i] IN
      /\ ev.status = "SETTLED" /\ ev.side = "UP" /\ ev.shares = 125 /\ ev.cost = 5000
      /\ ev.outcome = "UP" /\ ev.payout = 12500 /\ ev.pnl = 7500

\* C3: in settlePositions the outcome is UP exactly when the snapshot's
\* chainlink price is strictly greater than its priceToBeat, DOWN when it is
\* equal or lower.
C3_OutcomeStrict ==
  \A i \in 1..Len(obs.settled) :
    LET ev == obs.settled[i] IN
      ev.status = "SETTLED" =>
        /\ ev.via.chainlink # None /\ ev.via.priceToBeat # None
        /\ ev.outcome \in {"UP", "DOWN"}
        /\ ev.outcome = "UP" <=> Val(ev.via.chainlink) > Val(ev.via.priceToBeat)

\* a settlement at a price equal to the price to beat
C3_Witness ==
  \E i \in 1..Len(obs.settled) :
    LET ev == obs.settled[i] IN
      /\ ev.status = "SETTLED"
      /\ ev.via.chainlink = ev.via.priceToBeat
      /\ ev.outcome = "DOWN"

\* C4: a position of market slug S is settled by settlePositions only with
\* the prices and price-to-beat of a snapshot of slug S.
C4_SettledWithOwnSlug ==
  \A i \in 1..Len(obs.settled) :
    LET ev == obs.settled[i] IN
      ev.status = "SETTLED" => ev.via.slug = ev.marketSlug

\* C5: an OPEN position leaves the open-positions index only by being
\* settled (SETTLED or FORCE_SETTLED) in that step.
C5_OpenUntilSettled ==
  [][\A id \in OpenIds(positions) :
       \/ id \in OpenIds(positions')
       \/ \E i \in 1..Len(obs'.settled) : obs'.settled[i].id = id]_vars

\* C6: the balance is never negative and every created position has an
\* integer share count of at least 1.
C6_BalanceNonNegative ==
  /\ balance >= 0
  /\ \A i \in 1..Len(trades) : trades[i].shares >= 1
  /\ \A i \in 1..Len(positions) : positions[i].t.shares >= 1

\* The gates as the specification lists them, each with the reason the engine
\* gives for it; g is the engine at the canTrade call, d the snapshot.
GateDollarSize(g, d) == g.balance * Min(EdgeOf(d), 2 * maxPositionPct)

GatePriceValid(d) ==
  /\ d.side # NullStr
  /\ SidePrice(d) # None
  /\ 0 < Val(SidePrice(d)) /\ Val(SidePrice(d)) < OneDollar

\* the size gates are stated for a valid price only
GateShares(g, d) == GateDollarSize(g, d) \div (200 * Val(SidePrice(d)))

GateOrder(g, d) ==
  << [fails |-> ~g.enabled, reason |-> "Paper trading disabled"],
     [fails |-> g.balance < autoResetThreshold,
      reason |-> IF g.open = 0 THEN "Session reset - waiting for next signal"
                 ELSE "Balance too low - waiting for positions to settle"],
     [fails |-> g.lastTradeTime # None /\ g.at - Val(g.lastTradeTime) < cooldownMs,
      reason |-> "Cooldown"],
     [fails |-> d.action = "HOLD" \/ d.side = NullStr, reason |-> "No actionable signal"],
     [fails |-> EdgeOf(d) < minEdge, reason |-> "Edge below min"],
     [fails |-> d.strength \notin {"GOOD", "STRONG"}, reason |-> "Signal not strong enough"],
     [fails |-> d.phase = "LATE", reason |-> "Too late in window"],
     [fails |-> ~GatePriceValid(d), reason |-> "Invalid price"],
     [fails |-> GatePriceValid(d)
                  /\ (GateShares(g, d) < 1 \/ GateDollarSize(g, d) < 200 * OneDollar),
      reason |-> "Position size too small"],
     [fails |-> GatePriceValid(d) /\ GateShares(g, d) * Val(SidePrice(d)) > g.balance,
      reason |-> "Insufficient balance"] >>

\* every gate before the k-th passes
PassesBefore(g, d, k) == \A j \in 1..(k - 1) : ~GateOrder(g, d)[j].fails

\* C7: evaluateAndTrade applies its gates in the order disabled, balance below
\* the auto-reset threshold, cooldown, non-actionable signal, edge below
\* minimum, strength not GOOD/STRONG, LATE phase, invalid price, position size
\* below 1 share or 1 dollar, insufficient balance: the reason returned is that
\* of the first failing gate, and a position is entered only if none fails.
C7_GateOrder ==
  obs.data # <<>> =>
    LET g == obs.gate[1]
        d == obs.data[1]
    IN /\ \A k \in 1..10 :
            (PassesBefore(g, d, k) /\ GateOrder(g, d)[k].fails)
               => (~obs.traded /\ obs.reason = GateOrder(g, d)[k].reason /\ obs.buy = <<>>)
       /\ PassesBefore(g, d, 11) <=> obs.traded
       /\ obs.traded <=> obs.buy # <<>>

\* a call where the edge, the strength, the phase and the price all fail and
\* the edge reason is returned
C7_Witness ==
  /\ obs.data # <<>>
  /\ obs.gate[1].enabled
  /\ EdgeOf(obs.data[1]) < minEdge
  /\ obs.data[1].strength = "OPTIONAL"
  /\ obs.data[1].phase = "LATE"
  /\ Val(SidePrice(obs.data[1])) >= OneDollar
  /\ obs.reason = "Edge below min"

\* C8: an accepted entry has dollar size balance * min(edge / 2, maxPositionPct),
\* shares = floor(dollar size / price) and cost = shares * price, so the cost is
\* at most maxPositionPct * balance; balance 1000, edge 0.25, maxPositionPct 0.05
\* and price 0.40 give 125 shares, cost 50 and balance 950.
C8_Sizing ==
  obs.buy # <<>> =>
    LET b == obs.buy[1]
        dollarSize200 == b.balanceBefore * Min(b.edge, 2 * maxPositionPct)
    IN /\ b.trade.shares = dollarSize200 \div (200 * b.trade.entryPrice)
       /\ b.trade.cost = b.trade.shares * b.trade.entryPrice
       /\ 100 * b.trade.cost <= maxPositionPct * b.balanceBefore
       /\ (b.balanceBefore = 100000 /\ b.edge = 25 /\ maxPositionPct = 5
             /\ b.trade.entryPrice = 40)
            => (b.trade.shares = 125 /\ b.trade.cost = 5000 /\ balance = 95000)

\* the example of the specification
C8_Witness ==
  /\ obs.buy # <<>>
  /\ obs.buy[1].balanceBefore = 100000 /\ obs.buy[1].edge = 25
  /\ maxPositionPct = 5 /\ obs.buy[1].trade.entryPrice = 40
  /\ obs.buy[1].trade.shares = 125 /\ balance = 95000

RECURSIVE SumField(_, _)
SumField(q, f) == IF q = <<>> THEN 0 ELSE Head(q)[f] + SumField(Tail(q), f)

\* C9: with the engine enabled, the balance below the auto-reset threshold and
\* no open position, canTrade resets the session and returns not allowed with
\* the reset reason; the closed session's trade, win and loss counts are added
\* to the lifetime stats once: the lifetime counts are at all times the sums
\* over the closed sessions, and the new session starts with empty stats.
C9_AutoResetOnce ==
  /\ (obs.gate # <<>> /\ obs.gate[1].enabled
        /\ obs.gate[1].balance < autoResetThreshold /\ obs.gate[1].open = 0)
       => LET g == obs.gate[1] IN
            /\ ~obs.traded
            /\ obs.reason = "Session reset - waiting for next signal"
            /\ Len(obs.resets) = 1
            /\ lifetimeStats.totalTrades = g.lifetimeStats.totalTrades + g.stats.totalTrades
            /\ lifetimeStats.totalWins = g.lifetimeStats.totalWins + g.stats.wins
            /\ lifetimeStats.totalLosses = g.lifetimeStats.totalLosses + g.stats.losses
            /\ stats = initStats
  /\ lifetimeStats.totalTrades = SumField(sessionHistory, "trades")
  /\ lifetimeStats.totalWins = SumField(sessionHistory, "wins")
  /\ lifetimeStats.totalLosses = SumField(sessionHistory, "losses")

\* an auto-reset by canTrade that closes a session with a settled trade
C9_Witness ==
  /\ obs.gate # <<>>
  /\ obs.gate[1].enabled /\ obs.gate[1].balance < autoResetThreshold
  /\ obs.gate[1].open = 0 /\ obs.gate[1].stats.totalTrades > 0
  /\ obs.reason = "Session reset - waiting for next signal"
  /\ lifetimeStats.totalTrades > 0

\* C10: a reset of a session in which at least one trade was entered (settled
\* or still open) appends exactly one session record, with wiped = (ending
\* balance < auto-reset threshold), and adds one to lifetime totalSessions; a
\* reset of a session without a trade appends nothing.
C10_ResetRecordsSession ==
  \A i \in 1..Len(obs.resets) :
    LET ev == obs.resets[i] IN
      IF ev.entered > 0
      THEN /\ ev.histAfter = ev.histBefore + 1
           /\ ev.sessionsAfter = ev.sessionsBefore + 1
           /\ sessionHistory[ev.histAfter].wiped = (ev.endingBalance < autoResetThreshold)
      ELSE /\ ev.histAfter = ev.histBefore
           /\ ev.sessionsAfter = ev.sessionsBefore

\* the keys of the record save writes
WrittenFields ==
  {"startingBalance", "balance", "trades", "positions", "enabled", "stats",
   "sessionHistory", "lifetimeStats"}

\* a DATA_FILE that is missing, not parseable, or parseable with a field missing
Unusable(file) == file = None \/ ~(WrittenFields \subseteq DOMAIN Val(file))

\* the persisted fields of a fresh start
FreshState == Persisted(constructor(None, maxPositionPct))

\* C11: after every completed state-changing operation (enable, disable, reset,
\* auto-reset, an accepted entry, a settlement, forceSettle) the record in the
\* store equals the in-memory balance fields, trade list, open positions, stats,
\* session history and lifetime stats; while nothing was written the engine is
\* in its fresh state.
C11_StoreMatchesMemory ==
  IF store = None THEN Persisted(This) = FreshState
  ELSE Val(store) = Persisted(This)

\* a handler that settled a position and entered the next one
C11_Witness ==
  /\ obs.settled # <<>> /\ obs.buy # <<>>
  /\ store = Some(Persisted(This))
  /\ Len(Val(store).positions) = 1

\* C12: constructing a PaperTrader never fails because of the store: with the
\* store missing, unparseable, or parseable with missing fields, construction
\* completes and the engine starts from the fresh initial state.
C12_ConstructionNeverFails ==
  (obs.built /\ Unusable(store)) => (~obs.thrown /\ Persisted(This) = FreshState)

\* C13: saving a reachable engine state and constructing a new PaperTrader from
\* the store yields identical balance, starting balance, open positions, trade
\* list, stats, session history and lifetime stats, and saving the reloaded
\* engine writes the same record; a restart leaves the engine with exactly the
\* record of the store.
C13_RoundTrip ==
  LET saved == save(This)
      r == constructor(saved.store, maxPositionPct)
  IN /\ ~r.obs.thrown
     /\ r.balance = balance /\ r.startingBalance = startingBalance
     /\ [i \in 1..Len(r.positions) |-> r.positions[i].t]
          = [i \in 1..Len(positions) |-> positions[i].t]
     /\ r.trades = trades /\ r.stats = stats
     /\ r.sessionHistory = sessionHistory /\ r.lifetimeStats = lifetimeStats
     /\ save(r).store = saved.store
     /\ (obs.built /\ store # None) => Persisted(This) = Val(store)

\* a restart with a position open and a settled trade in the list
C13_Witness ==
  /\ obs.built /\ events > 0 /\ store # None
  /\ Len(positions) > 0
  /\ stats.totalTrades > 0

\* the latest latch of the log
LastLatch == latchLog[Len(latchLog)]

\* C14: once priceToBeat has a value for slug S, a later cycle whose market slug
\* is S, or whose market could not be resolved, leaves it unchanged whatever
\* the oracle price is; a cycle with another slug S2 clears it until a value is
\* latched under S2; and the snapshot carries a priceToBeat only if it is the
\* one latched under its own slug.
C14_LatchHolds ==
  [][latestData' # None =>
       LET ld == Val(latestData')
           old == priceToBeatState
           new == priceToBeatState'
       IN /\ (old.value # None /\ ld.slug \in {old.slug, ""}) => new = old
          /\ (old.value # None /\ ld.slug = old.slug) => ld.priceToBeat = old.value
          /\ (ld.slug \notin {old.slug, ""}) =>
                /\ new.slug = ld.slug
                /\ \/ new.value = None
                   \/ new.setAtMs = Some(now') /\ new.value = ld.chainlink
                /\ ld.priceToBeat = new.value
          /\ ld.priceToBeat # None =>
                /\ new.slug = ld.slug /\ new.value = ld.priceToBeat
                /\ latchLog' # <<>>
                /\ latchLog'[Len(latchLog')].slug = ld.slug
                /\ latchLog'[Len(latchLog')].value = ld.priceToBeat]_vars

\* a cycle under the latched slug with another oracle price than the latched one
C14_Witness ==
  /\ latestData # None /\ latchLog # <<>>
  /\ Val(latestData).slug = priceToBeatState.slug
  /\ Val(latestData).chainlink # None
  /\ Val(latestData).chainlink # priceToBeatState.value
  /\ Val(latestData).priceToBeat = priceToBeatState.value
  /\ LastLatch.at < now

\* C15: priceToBeat is latched only at or after the nominal start of the
\* market's window, whatever market descriptor the cycles received, and a slug
\* is never latched a second time with a different value.
C15_LatchedOnceAfterStart ==
  /\ \A i \in 1..Len(latchLog) : latchLog[i].at >= WindowStart(latchLog[i].slug)
  /\ \A i, j \in 1..Len(latchLog) :
       latchLog[i].slug = latchLog[j].slug => latchLog[i].value = latchLog[j].value

\* C16: when the chainlink price or the price-to-beat of the settlement
\* snapshot is unavailable at a market change, settlePositions settles nothing:
\* stats, trade list and open positions are as before, the balance changes only
\* by the buy the same call may go on to make, and the positions stay OPEN.
C16_DeferredSettlement ==
  [][(/\ obs'.gate # <<>>
      /\ Truthy(currentMarketSlug) /\ currentMarketSlug' # currentMarketSlug
      /\ Len(positions) > 0
      /\ pendingSettlement # None
      /\ (Val(pendingSettlement).chainlink = None
            \/ Val(pendingSettlement).priceToBeat = None))
       => /\ obs'.deferred
          /\ obs'.settled = <<>> /\ obs'.resets = <<>>
          /\ stats' = stats
          /\ Len(trades') >= Len(trades)
          /\ \A i \in 1..Len(trades) : trades'[i] = trades[i]
          /\ Len(positions') >= Len(positions)
          /\ \A i \in 1..Len(positions) :
               positions'[i] = positions[i] /\ positions'[i].t.status = "OPEN"
          /\ balance' = balance - (IF obs'.buy # <<>> THEN obs'.buy[1].trade.cost ELSE 0)
          /\ Len(trades') = Len(trades) + Len(obs'.buy)]_vars

\* a deferred settlement: the position of the old market is still open
C16_Witness ==
  /\ obs.deferred
  /\ Len(positions) > 0
  /\ positions[1].t.marketSlug # currentMarketSlug
  /\ positions[1].t.status = "OPEN"

\* the streaks after the settlements evs, from the streaks r before them
RECURSIVE RunsAfter(_, _)
RunsAfter(r, evs) ==
  IF evs = <<>> THEN r
  ELSE LET c == IF Head(evs).pnl > 0 THEN Max(0, r.cur) + 1 ELSE Min(0, r.cur) - 1
       IN RunsAfter([cur |-> c, best |-> Max(r.best, c), worst |-> Min(r.worst, c)],
                    Tail(evs))

\* C17: with every settlement, by settlePositions or by forceSettle, the
\* current streak is extended or restarted by the sign of the settled position,
\* so that it is the signed length of the trailing run of wins or losses, and
\* bestStreak and worstStreak are the longest winning and losing runs; the
\* win/loss counts move with them.
C17_StreaksFollowSettlements ==
  [][(obs'.settled # <<>> /\ obs'.resets = <<>>)
       => LET r == RunsAfter([cur |-> stats.currentStreak, best |-> stats.bestStreak,
                              worst |-> stats.worstStreak], obs'.settled)
              won == Len(SelectSeq(obs'.settled, LAMBDA ev : ev.pnl > 0))
          IN /\ stats'.currentStreak = r.cur
             /\ stats'.bestStreak = r.best
             /\ stats'.worstStreak = r.worst
             /\ stats'.wins = stats.wins + won
             /\ stats'.losses = stats.losses + Len(obs'.settled) - won
             /\ stats'.totalTrades = stats.totalTrades + Len(obs'.settled)]_vars

\* the lifetime counters
LifetimeCounters == DOMAIN initLifetimeStats

C20_EntriesCooldownApart ==
  (obs.buy # <<>> /\ obs.buy[1].prevEntry # None)
     => obs.buy[1].trade.id - Val(obs.buy[1].prevEntry) >= cooldownMs

\* C19: a gate failure of PaperTrader.evaluateAndTrade or of
\* AutoTrader.evaluateAndTrade is returned as traded = false with a reason and
\* never thrown, and a rejected paper call that neither settled positions nor
\* auto-reset leaves balance, trade list, open positions, stats and
\* lastTradeTime unchanged.
C19_RejectionReturned ==
  [][/\ ~autoObs'.thrown /\ ~obs'.thrown
     /\ (autoObs'.called /\ ~autoObs'.traded) => autoObs'.reason # ""
     /\ (obs'.gate # <<>> /\ ~obs'.traded) => obs'.reason # ""
     /\ (obs'.gate # <<>> /\ ~obs'.traded /\ obs'.settled = <<>> /\ obs'.resets = <<>>)
          => UNCHANGED <<balance, trades, positions, stats, lastTradeTime>>
     /\ (now' # now /\ autoObs'.called /\ ~autoObs'.traded) => autoTrader' = autoTrader]_vars

\* both traders, enabled and past their first gates, reject one snapshot for
\* its edge
C19_Witness ==
  /\ obs.data # <<>> /\ ~obs.traded /\ obs.reason = "Edge below min"
  /\ autoObs.called /\ ~autoObs.traded /\ autoObs.reason = "Edge below minimum"
  /\ traderReady /\ autoTrader.enabled /\ enabled

\* C29: in every reachable state of the paper engine, balance + sum(cost of
\* OPEN positions) = startingBalance + stats.totalWon - stats.totalLost, across
\* entries, settlements, force-settles, resets and auto-resets.
C29_SessionAccounting ==
  balance + OpenCost(positions) = startingBalance + stats.totalWon - stats.totalLost

\* a session with a won position behind it and a position open
C29_Witness ==
  /\ stats.totalWon > 0
  /\ Len(positions) > 0 /\ OpenCost(positions) > 0
  /\ balance # startingBalance

\* C30: a trade-list record has status OPEN if and only if a position with the
\* same id is in the open-positions index, also after a save and a reload, so
\* that the record of a settled position shows SETTLED or FORCE_SETTLED with a
\* pnl.
C30_TradeListMatchesIndex ==
  \A i \in 1..Len(trades) :
    /\ trades[i].status = "OPEN" <=> \E j \in 1..Len(positions) : positions[j].t.id = trades[i].id
    /\ trades[i].status # "OPEN" =>
         (trades[i].status \in {"SETTLED", "FORCE_SETTLED"} /\ trades[i].pnl # None)

\* the differences close - vwap over the last lookback bars, oldest first
WindowDiffs(c) ==
  [k \in 1..c.lookback |-> c.closes[Len(c.closes) - c.lookback + k]
                             - c.vwapSeries[Len(c.closes) - c.lookback + k]]

Sign(x) == IF x > 0 THEN 1 ELSE IF x < 0 THEN 0 - 1 ELSE 0

\* how often the sign changes along the differences that are not zero
SignChanges(diffs) ==
  LET nz == SelectSeq(diffs, LAMBDA d : d # 0)
  IN Cardinality({k \in 1..(Len(nz) - 1) : Sign(nz[k]) # Sign(nz[k + 1])})

\* C27: countVwapCrosses over the last N bars returns null when fewer than N
\* bars of either series exist; for series of one length it returns less than 2
\* when close - vwap keeps one sign and exactly 1 when the sign changes exactly
\* once inside the window, also when the series passes through an exact zero
\* between the two signs.
C27_CrossCount ==
  vwapCross.called =>
    LET c == vwapCross IN
      /\ (Len(c.closes) < c.lookback \/ Len(c.vwapSeries) < c.lookback) => c.result = None
      /\ (Len(c.closes) >= c.lookback /\ Len(c.vwapSeries) = Len(c.closes)) =>
           /\ c.result # None
           /\ SignChanges(WindowDiffs(c)) = 0 => Val(c.result) < 2
           /\ SignChanges(WindowDiffs(c)) = 1 => Val(c.result) = 1

\* The gates of the AutoTrader as the specification lists them, each with the
\* reason the AutoTrader gives for it; c is the call: the AutoTrader before it,
\* isTraderReady(), the snapshot and the time.
AutoGateOrder(c) ==
  << [fails |-> ~c.a.enabled, reason |-> "Auto-trading disabled"],
     [fails |-> ~c.ready, reason |-> "Trader not initialized"],
     [fails |-> c.a.dailyPnL <= 0 - c.a.maxDailyLoss, reason |-> "Daily loss limit reached"],
     [fails |-> c.a.lastTradeTime # None /\ c.at - Val(c.a.lastTradeTime) < c.a.cooldownMs,
      reason |-> "Cooldown remaining"],
     [fails |-> c.data.action = "HOLD" \/ c.data.side = NullStr,
      reason |-> "No actionable signal"],
     [fails |-> EdgeOf(c.data) < c.a.minEdge, reason |-> "Edge below minimum"],
     [fails |-> c.data.strength # "STRONG", reason |-> "Only STRONG signals are auto-traded"],
     [fails |-> c.data.slug = "", reason |-> "Missing token ID"],
     [fails |-> c.data.side = NullStr \/ SidePrice(c.data) = None
                  \/ Val(SidePrice(c.data)) <= 0,
      reason |-> "Invalid market price"] >>

\* every gate of the AutoTrader before the k-th passes
AutoPassesBefore(c, k) == \A j \in 1..(k - 1) : ~AutoGateOrder(c)[j].fails

\* C24: AutoTrader.evaluateAndTrade applies its gates in the order disabled,
\* trader not ready, daily loss limit breached, cooldown not elapsed,
\* non-actionable signal, edge below minimum, strength not STRONG, missing token
\* id, invalid price: the reason returned is that of the first failing gate and
\* placeBuyOrder is not called when any gate fails.
C24_AutoGateOrder ==
  (autoObs.called /\ live.call # <<>>) =>
    LET c == live.call[1] IN
      /\ ~autoObs.thrown
      /\ \A k \in 1..9 :
           (AutoPassesBefore(c, k) /\ AutoGateOrder(c)[k].fails)
              => (~autoObs.traded /\ autoObs.reason = AutoGateOrder(c)[k].reason
                    /\ ~autoObs.submitted /\ c.after = c.a)
      /\ autoObs.submitted => AutoPassesBefore(c, 10)

\* a call of the enabled, ready AutoTrader inside its cooldown with the daily
\* loss limit breached and a snapshot that fails the edge, the strength and the
\* price: the daily-loss reason is returned
C24_Witness ==
  /\ autoObs.called /\ live.call # <<>>
  /\ \A k \in 3..9 : k # 5 /\ k # 8 => AutoGateOrder(live.call[1])[k].fails
  /\ AutoPassesBefore(live.call[1], 3)
  /\ autoObs.reason = "Daily loss limit reached"

\* C25: once the day's accumulated loss has reached the configured
\* maxDailyLoss, every later evaluateAndTrade of the enabled, ready AutoTrader
\* is rejected and submits no order (the daily-loss gate is the third of its
\* gates; the reason returned is left open here, the order is what counts).
C25_DailyLossStops ==
  (autoObs.called /\ live.call # <<>>) =>
    LET c == live.call[1] IN
      (c.a.enabled /\ c.ready /\ c.a.maxDailyLoss > 0 /\ c.dayLoss >= c.a.maxDailyLoss)
        => (~autoObs.traded /\ ~autoObs.submitted /\ autoObs.reason # "")

C28_MalformedRejected ==
  /\ startingBalance > 0 /\ (obs.resets # <<>> => balance > 0)
  /\ \A i \in 1..Len(obs.settled) : obs.settled[i].outcome \in {"UP", "DOWN"}
  /\ autoTrader.maxPositionSize >= 0 /\ autoTrader.minEdge >= 0
  /\ autoTrader.maxDailyLoss >= 0 /\ autoTrader.cooldownMs >= 0

\* C21: GET /api/data reports not-ready until the first cycle has completed
\* successfully; from then on latestData is never cleared and is the snapshot
\* of the latest successful cycle, which a failed cycle leaves in place and the
\* accessor returns.
C21_LatestSnapshotKept ==
  /\ latestData = dataLog.last
  /\ dataLog.count = 0 <=> latestData = None
  /\ dataLog.response # None =>
       LET r == Val(dataLog.response) IN
         /\ r.seen = 0 => (r.status = 503 /\ r.body = None)
         /\ r.seen > 0 => (r.status = 200 /\ r.body # None)
         /\ r.seen = dataLog.count => r.body = dataLog.last

\* the cycle after a successful one has failed, and GET /api/data answers with
\* the snapshot of the earlier cycle
C21_Witness ==
  /\ pc = "sleep" /\ dataLog.failed > 0 /\ dataLog.count > 0
  /\ Val(dataLog.last).timestamp < now
  /\ dataLog.response = Some([status |-> 200, body |-> dataLog.last, seen |-> dataLog.count])

\* C22: latestData is written by the publishing step of the cycle alone, as
\* the whole object that cycle built, and a request served at an await of the
\* loop gets the complete snapshot of the latest cycle that published: the
\* previous one while the cycle is fetching, the next one after.
C22_SnapshotAtomic ==
  [][/\ latestData' # latestData =>
          /\ pc = "fetching" /\ pc' = "auto"
          /\ dataLog'.count = dataLog.count + 1
          /\ latestData' = dataLog'.last
     /\ dataLog'.response # dataLog.response =>
          /\ AtAwait
          /\ Val(dataLog'.response).body = dataLog.last
          /\ dataLog.last # None =>
               /\ Val(dataLog'.response).status = 200
               /\ Val(dataLog.last).timestamp = (IF pc = "fetching" THEN now - PollMs ELSE now)
                    \/ dataLog.failed > 0]_vars

\* a request served while the second cycle is fetching: it gets the snapshot of
\* the first
C22_Witness ==
  /\ pc = "fetching" /\ now = PollMs
  /\ dataLog.count = 1 /\ dataLog.response # None
  /\ Val(dataLog.response).seen = 1
  /\ Val(dataLog.response).body = dataLog.last
  /\ Val(Val(dataLog.response).body).timestamp = 0

\* the order of the places of startDataLoop
LoopOrder ==
  {<<"update", "fetching">>, <<"fetching", "auto">>, <<"auto", "ordering">>,
   <<"auto", "paper">>, <<"ordering", "paper">>, <<"paper", "sleep">>,
   <<"sleep", "update">>}

\* C23: the loop runs sequentially and never stops: its places follow one
\* another in the order update, live trader, paper trader, sleep, the clock
\* moves by the poll interval at the sleep alone, and at every place, after a
\* failed update or a refused or failed order as after a good one, the loop
\* has its next step to take (up to the bound on the iterations).
C23_LoopNeverStops ==
  /\ [][/\ pc' # pc => <<pc, pc'>> \in LoopOrder
        /\ now' # now => (pc = "sleep" /\ pc' = "update" /\ now' = now + PollMs)]_vars
  /\ []((now = MaxLoopCycles * PollMs /\ pc = "update") \/ ENABLED LoopStep)

\* the first cycle failed and the second is under way
C23_Witness ==
  /\ dataLog.failed = 1 /\ dataLog.count = 0
  /\ now = PollMs /\ pc = "fetching"

\* C31: positions are settled by the loop only when a snapshot of another
\* resolved market is observed: a step that settles a position (status
\* SETTLED) ends with a tracked slug that is not empty and is not the slug
\* tracked before, so that neither a snapshot without a market nor the same
\* slug coming back settles anything.
C31_SettledOnResolvedChange ==
  [][\A i \in 1..Len(obs'.settled) :
       obs'.settled[i].status = "SETTLED" =>
         /\ currentMarketSlug' # ""
         /\ currentMarketSlug' # currentMarketSlug]_vars

\* C32: a snapshot drives at most one decision of each trader: an order is
\* handed to placeBuyOrder, and a paper position is entered, only in an
\* iteration whose updateData published the snapshot (its timestamp is the
\* time of the iteration), never on the snapshot an earlier cycle left.
C32_NoEntryOnStaleSnapshot ==
  [][((pc = "auto" /\ pc' = "ordering") \/ (pc = "paper" /\ pc' = "sleep" /\ obs'.traded))
       => Val(latestData).timestamp = now]_vars

\* C33: getStatus is a pure query: called in any reachable state, it leaves
\* the balance, the starting balance, the trade list, the open positions, the
\* stats, the session history, the lifetime stats and the persisted record
\* as they are.
C33_GetStatusPure ==
  LET s == getStatus(Begin(This))
  IN /\ s.balance = balance
     /\ s.startingBalance = startingBalance
     /\ s.trades = trades
     /\ s.positions = positions
     /\ s.stats = stats
     /\ s.sessionHistory = sessionHistory
     /\ s.lifetimeStats = lifetimeStats
     /\ s.store = store

\* C34: an auto-reset restores a session that can trade: when canTrade has
\* reset the session the balance is at least the auto-reset threshold, and
\* the canTrade call of the next iteration does not reset it again.
C34_AutoResetRestores ==
  /\ [](obs.reason = "Session reset - waiting for next signal"
          => balance >= autoResetThreshold)
  /\ [][~(/\ obs.reason = "Session reset - waiting for next signal"
          /\ obs'.reason = "Session reset - waiting for next signal")]_vars

RecordStatus(list, id) ==
  IF \E k \in 1..Len(list) : list[k].id = id
  THEN list[CHOOSE k \in 1..Len(list) : list[k].id = id].status
  ELSE ""

\* C35: every OPEN position is settled in the end.  A position that is OPEN
\* stays in the index until a step settles it, and its record is then SETTLED
\* or FORCE_SETTLED; and each iteration in which the enabled engine sees the
\* slug change, with the reference price and the price-to-beat of the last
\* snapshot known, settles every position that was open and takes it out of
\* the index.
C35_OpenEventuallySettled ==
  [][/\ \A id \in OpenIds(positions) :
          \/ id \in OpenIds(positions')
          \/ /\ \E i \in 1..Len(obs'.settled) : obs'.settled[i].id = id
             /\ RecordStatus(trades', id) \in {"", "SETTLED", "FORCE_SETTLED"}
     /\ (/\ now' # now /\ enabled
         /\ Truthy(currentMarketSlug) /\ currentMarketSlug' # currentMarketSlug
         /\ pendingSettlement # None
         /\ Val(pendingSettlement).chainlink # None
         /\ Val(pendingSettlement).priceToBeat # None)
        => \A id \in OpenIds(positions) :
             /\ \A j \in 1..Len(positions') : positions'[j].t.id # id
             /\ \E i \in 1..Len(obs'.settled) :
                  obs'.settled[i].id = id /\ obs'.settled[i].status = "SETTLED"]_vars

====
